---- MODULE Spec2Model ----
(***************************************************************************)
(* A model of the tokenr Python SDK (src/tokenr/__init__.py): the process- *)
(* wide configuration, the installation of the tracking wrappers on the    *)
(* two vendor entry points, the wrappers themselves, track, and the        *)
(* background submission started by _send_tracking.                        *)
(***************************************************************************)
EXTENDS Integers, Sequences, FiniteSets, TLC

VARIABLES
    config,            \* the module global _config
    env,               \* the process environment: TOKENR_TOKEN, TOKENR_URL
    requests,          \* TRUE iff `import requests` succeeded
    libs,              \* the vendor libraries that can be imported
    create,            \* per vendor: the function now bound to the entry point
    original_methods,  \* the module global _original_methods (its keys)
    threads,           \* the background threads started by _send_tracking
    nSend,             \* number of _send_tracking invocations so far
    last               \* what the most recent operation was given and did

vars == <<config, env, requests, libs, create, original_methods, threads, nSend, last>>

----------------------------------------------------------------------------
(* Bounds of the model.                                                    *)

\* most wrapper layers an entry point is let to grow to
MaxLayers == 2
\* most background threads started in one behaviour
MaxThreads == 2

----------------------------------------------------------------------------
(* Python values.  A value is a record tagged with its type, so that None, *)
(* 0, "" and {} stay distinct and truthiness is computed as Python does.   *)

None == [t |-> "none"]
Num(n) == [t |-> "int", v |-> n]
Str(s) == [t |-> "str", v |-> s]
\* a str held character by character (the base URL, which is searched)
Text(cs) == [t |-> "text", v |-> cs]
\* an object that is no str but has a string form (httpx.URL)
Url(cs) == [t |-> "url", v |-> cs]
\* an attribute whose access raises (a property that throws)
Raises == [t |-> "raises"]
Bool(b) == [t |-> "bool", v |-> b]
Dict(f) == [t |-> "dict", v |-> f]
Obj(f) == [t |-> "obj", v |-> f]
EmptyMap == [k \in {} |-> None]
EmptyDict == Dict(EmptyMap)

\* bool(v); an object is true unless its class defines __bool__
Truthy(v) ==
    CASE v.t = "none" -> FALSE
      [] v.t = "int" -> v.v # 0
      [] v.t = "str" -> v.v # ""
      [] v.t = "text" -> v.v # <<>>
      [] v.t = "url" -> TRUE
      [] v.t = "dict" -> DOMAIN v.v # {}
      [] v.t = "bool" -> v.v
      [] v.t = "obj" -> IF "__bool__" \in DOMAIN v.v THEN v.v["__bool__"].v ELSE TRUE
      [] OTHER -> FALSE

\* a or b
Or(a, b) == IF Truthy(a) THEN a ELSE b

\* getattr(o, name, default): o may be any value; only objects have attributes
GetAttr(o, name, default) ==
    IF o.t = "obj" /\ name \in DOMAIN o.v THEN o.v[name] ELSE default

\* hasattr(o, name)
HasAttr(o, name) == o.t = "obj" /\ name \in DOMAIN o.v

\* a variant in which the first mapping wins a key both have
MergeMapsFirstWins(a, b) ==
    [k \in (DOMAIN a) \cup (DOMAIN b) |-> IF k \in DOMAIN a THEN a[k] ELSE b[k]]

\* {**a, **b} on the mappings of two dicts
MergeMaps(a, b) ==
    [k \in (DOMAIN a) \cup (DOMAIN b) |-> IF k \in DOMAIN b THEN b[k] ELSE a[k]]

----------------------------------------------------------------------------
(* Configuration state.                                                    *)

DefaultUrl == Str("https://tokenr.co/api/v1/track")
DefaultTimeout == Num(2)

InitialConfig ==
    [token |-> None,
     url |-> DefaultUrl,
     enabled |-> TRUE,
     timeout |-> DefaultTimeout,
     debug |-> FALSE,
     default_agent_id |-> None,
     default_tags |-> EmptyDict]

\* os.getenv(name): None when the variable is unset
GetEnv(name) == env[name]

\* os.getenv(name, default)
GetEnvOr(name, default) == IF env[name] = None THEN default ELSE env[name]

Vendors == {"openai", "anthropic"}

\* the vendor's own function is identity 0 of its entry point; the k-th
\* tracked_create closure built for the entry point is identity k
Fn(v, k) == <<v, k>>

\* _patch_openai / _patch_anthropic on the pair (create, original_methods)
Patch(v, st) ==
    IF v \notin libs THEN st
    ELSE LET original_create == Fn(v, st.create[v]) IN
         IF original_create \in st.original_methods THEN st
         ELSE [create |-> [st.create EXCEPT ![v] = @ + 1],
               original_methods |-> st.original_methods \cup {original_create}]

\* _config after the assignments of init
InitConfig(a) ==
    [config EXCEPT
        !.token = Or(a.token, GetEnv("TOKENR_TOKEN")),
        !.url = Or(a.url, GetEnvOr("TOKENR_URL", config.url)),
        !.enabled = a.enabled,
        !.debug = a.debug,
        !.default_agent_id = a.agent_id,
        !.default_tags = Or(a.tags, EmptyDict)]

\* tokenr.init(token, url, agent_id, tags, enabled, debug)
InitCall(Args) ==
    \E a \in Args :
        LET cfg == InitConfig(a)
            st0 == [create |-> create, original_methods |-> original_methods]
            st2 == IF Truthy(cfg.token) /\ requests
                   THEN Patch("anthropic", Patch("openai", st0))
                   ELSE st0
        IN  /\ \A v \in Vendors : st2.create[v] <= MaxLayers
            /\ config' = cfg
            /\ create' = st2.create
            /\ original_methods' = st2.original_methods
            /\ last' = [op |-> "init", args |-> a]
            /\ UNCHANGED <<env, requests, libs, threads, nSend>>

\* tokenr.configure(**kwargs)
Configure(Args) ==
    \E kw \in Args :
        /\ config' = MergeMaps(config, kw)
        /\ last' = [op |-> "configure", args |-> kw]
        /\ UNCHANGED <<env, requests, libs, create, original_methods, threads, nSend>>

----------------------------------------------------------------------------
(* The dispatcher: track and _send_tracking.                               *)

\* the defaults of track's optional parameters
TrackDefaults ==
    [cache_read_tokens |-> Num(0),
     cache_write_tokens |-> Num(0),
     agent_id |-> None,
     feature_name |-> None,
     team_id |-> None,
     status |-> Str("success"),
     latency_ms |-> None,
     tags |-> None,
     requested_at |-> None]

\* the dict `data` that track builds, before the None values are removed
TrackData(cfg, a) ==
    LET merged_tags == Dict(MergeMaps(cfg.default_tags.v, Or(a.tags, EmptyDict).v)) IN
    [provider |-> a.provider,
     model |-> a.model,
     input_tokens |-> a.input_tokens,
     output_tokens |-> a.output_tokens,
     cache_read_tokens |-> IF Truthy(a.cache_read_tokens) THEN a.cache_read_tokens ELSE None,
     cache_write_tokens |-> IF Truthy(a.cache_write_tokens) THEN a.cache_write_tokens ELSE None,
     agent_id |-> Or(a.agent_id, cfg.default_agent_id),
     feature_name |-> a.feature_name,
     team_id |-> a.team_id,
     status |-> a.status,
     latency_ms |-> a.latency_ms,
     tags |-> IF Truthy(merged_tags) THEN merged_tags ELSE None,
     requested_at |-> a.requested_at]

\* a variant that drops every false value, 0 included
StripFalsy(d) == [k \in {x \in DOMAIN d : Truthy(d[x])} |-> d[k]]

\* {k: v for k, v in data.items() if v is not None}
StripNone(d) == [k \in {x \in DOMAIN d : d[x] # None} |-> d[k]]

\* a variant of the guard that forgets the credential
TrackingOffEnabledOnly(cfg) == ~cfg.enabled

\* track's guard: `if not _config["enabled"] or not _config["token"]: return`
TrackingOff(cfg) == ~cfg.enabled \/ ~Truthy(cfg.token)

\* track: the records it hands to _send_tracking (none or one)
Track(cfg, a) ==
    IF TrackingOff(cfg) THEN <<>> ELSE <<StripNone(TrackData(cfg, a))>>

\* the Thread object _send_tracking creates and starts.  Its payload is the
\* record handed over, which `last.sent` holds; `at` keeps the credential
\* and endpoint configured when the record was handed over
NewThread(cfg, data) ==
    [state |-> "started", posts |-> 0, request |-> None,
     outcome |-> "none", log |-> "none",
     at |-> [token |-> cfg.token, url |-> cfg.url]]

\* a variant that runs _send in the caller before returning
SendTrackingInline(cfg, ths, data) ==
    Append(ths, [NewThread(cfg, data) EXCEPT
                    !.state = "done",
                    !.posts = 1,
                    !.request = [url |-> cfg.url, auth |-> cfg.token,
                                 timeout |-> cfg.timeout],
                    !.outcome = "ok"])

\* _send_tracking(data): one daemon thread is started, nothing is awaited
SendTracking(cfg, ths, data) == Append(ths, NewThread(cfg, data))

RECURSIVE SendAll(_, _, _)
\* the calls of _send_tracking made, in order, during one operation
SendAll(cfg, ths, sent) ==
    IF sent = <<>> THEN ths
    ELSE SendAll(cfg, SendTracking(cfg, ths, Head(sent)), Tail(sent))

\* what a requests.post may come to: a response with ok set, a response
\* with an error status, or a raised Timeout or ConnectionError
PostOutcomes == {"ok", "status_error", "timeout", "connection_error"}

\* what _send prints: nothing unless _config["debug"]
SendLog(cfg, outcome) ==
    IF ~cfg.debug THEN "none"
    ELSE CASE outcome = "ok" -> "Tracked"
           [] outcome = "status_error" -> "Error"
           [] OTHER -> "Failed to track"

\* a variant that leaves the thread to post again after a failed post
SendBodyRetry(th, cfg, outcome) ==
    [th EXCEPT !.state = IF outcome = "ok" THEN "done" ELSE "started",
               !.posts = @ + 1,
               !.request = [url |-> cfg.url, auth |-> cfg.token, timeout |-> cfg.timeout],
               !.outcome = outcome,
               !.log = SendLog(cfg, outcome)]

\* a variant that posts with the credential and endpoint of the hand-over
SendBodySnapshot(th, cfg, outcome) ==
    [th EXCEPT !.state = "done",
               !.posts = @ + 1,
               !.request = [url |-> th.at.url, auth |-> th.at.token, timeout |-> cfg.timeout],
               !.outcome = outcome,
               !.log = SendLog(cfg, outcome)]

\* the body of _send, run by the background thread: one requests.post
\* with what _config holds at that moment; every exception is swallowed
\* (one raised while printing the result included).
\* Without the requests module the call itself raises and nothing is posted.
SendBody(th, cfg, outcome) ==
    IF requests
    THEN [th EXCEPT !.state = "done",
                    !.posts = @ + 1,
                    !.request = [url |-> cfg.url, auth |-> cfg.token,
                                 timeout |-> cfg.timeout],
                    !.outcome = outcome,
                    !.log = SendLog(cfg, outcome)]
    ELSE [th EXCEPT !.state = "done", !.outcome = "exception",
                    !.log = SendLog(cfg, "exception")]

\* a started background thread runs _send to its end
ThreadRun ==
    \E i \in 1..Len(threads), outcome \in PostOutcomes :
        /\ threads[i].state = "started"
        /\ threads' = [threads EXCEPT ![i] = SendBody(threads[i], config, outcome)]
        /\ UNCHANGED <<config, env, requests, libs, create, original_methods, nSend, last>>

\* tokenr.track(...) called by the application
TrackCall(Args, cap) ==
    \E a \in Args :
        LET sent == Track(config, a) IN
        /\ Len(threads) + Len(sent) <= cap
        /\ threads' = SendAll(config, threads, sent)
        /\ nSend' = nSend + Len(sent)
        /\ last' = [op |-> "track", args |-> a, off |-> TrackingOff(config),
                    tracks |-> 1, sent |-> sent]
        /\ UNCHANGED <<config, env, requests, libs, create, original_methods>>

----------------------------------------------------------------------------
(* Provider detection.                                                     *)

\* _OPENAI_COMPAT_PROVIDERS, in the dict's insertion order
OPENAI_COMPAT_PROVIDERS ==
    << [keyword |-> <<"m","i","n","i","m","a","x">>, slug |-> "minimax"],
       [keyword |-> <<"a","n","t","h","r","o","p","i","c">>, slug |-> "anthropic"],
       [keyword |-> <<"g","o","o","g","l","e","a","p","i","s">>, slug |-> "google"],
       [keyword |-> <<"m","i","s","t","r","a","l">>, slug |-> "mistral"],
       [keyword |-> <<"c","o","h","e","r","e">>, slug |-> "cohere"],
       [keyword |-> <<"d","e","e","p","s","e","e","k">>, slug |-> "deepseek"],
       [keyword |-> <<"x",".","a","i">>, slug |-> "xai"],
       [keyword |-> <<"x","a","i">>, slug |-> "xai"],
       [keyword |-> <<"a","z","u","r","e">>, slug |-> "azure_openai"] >>

\* the upper-case letters of the modelled URLs and their lower-case forms
LowerOf ==
    [c \in {"A", "G", "X", "Z", "I", "M"} |->
        CASE c = "A" -> "a" [] c = "G" -> "g" [] c = "X" -> "x"
          [] c = "Z" -> "z" [] c = "I" -> "i" [] c = "M" -> "m"]

\* str.lower()
Lower(cs) == [i \in 1..Len(cs) |-> IF cs[i] \in DOMAIN LowerOf THEN LowerOf[cs[i]] ELSE cs[i]]

\* `keyword in base_url`
Contains(cs, keyword) ==
    \E i \in 0..(Len(cs) - Len(keyword)) : SubSeq(cs, i + 1, i + Len(keyword)) = keyword

\* str(v) of the values a base URL may hold, as characters
PyStr(v) ==
    CASE v.t = "text" -> v.v
      [] v.t = "url" -> v.v
      [] OTHER -> <<>>

\* the body of _detect_provider's try block: the slug returned from inside
\* the loop, "<fallthrough>" when the loop ends, "<raise>" when a step raises
DetectTry(completions_self) ==
    LET client == GetAttr(completions_self, "_client", None)
        attr == GetAttr(client, "base_url", Text(<<>>))
    IN  IF client = Raises \/ attr = Raises THEN "<raise>"
        ELSE LET base_url == Lower(PyStr(Or(attr, Text(<<>>))))
                 hits == {i \in 1..Len(OPENAI_COMPAT_PROVIDERS) :
                             Contains(base_url, OPENAI_COMPAT_PROVIDERS[i].keyword)}
             IN  IF hits = {} THEN "<fallthrough>"
                 ELSE OPENAI_COMPAT_PROVIDERS[CHOOSE i \in hits : \A j \in hits : i <= j].slug

\* a variant without the try/except around the lookup
DetectProviderNoCatch(completions_self) ==
    LET r == DetectTry(completions_self) IN
    IF r = "<fallthrough>" THEN "openai" ELSE r

\* _detect_provider(completions_self): `except Exception: pass`, then "openai"
DetectProvider(completions_self) ==
    LET r == DetectTry(completions_self) IN
    IF r \in {"<raise>", "<fallthrough>"} THEN "openai" ELSE r

\* _detect_provider applied to a Completions instance
DetectCall(Selves) ==
    \E completions_self \in Selves :
        /\ last' = [op |-> "detect", self |-> completions_self,
                    result |-> DetectProvider(completions_self)]
        /\ UNCHANGED <<config, env, requests, libs, create, original_methods, threads, nSend>>

----------------------------------------------------------------------------
(* The interception layer: the two tracked_create wrappers.                *)

\* the result of evaluating Python code: a value, or a raised exception
Ok(v) == [ok |-> TRUE, val |-> v]
Raise(e) == [ok |-> FALSE, exc |-> e]

\* o.name: AttributeError when the attribute is missing
Attr(o, name) ==
    IF HasAttr(o, name) THEN Ok(o.v[name]) ELSE Raise("AttributeError")

\* int(v) for v truthy or 0
ToInt(v) ==
    CASE v.t = "int" -> Ok(v.v)
      [] v.t = "str" -> Raise("ValueError")
      [] OTHER -> Raise("TypeError")

\* a variant that only asks for the attribute
HasUsageAttr(response) == HasAttr(response, "usage")

\* `hasattr(response, 'usage') and response.usage`
HasUsage(response) ==
    HasAttr(response, "usage") /\ Truthy(response.v["usage"])

\* a variant without the floor
KeepNegative(n) == n

\* max(non_cached_input, 0)
FloorAtZero(n) == IF n > 0 THEN n ELSE 0

\* lines 256-277 of the OpenAI wrapper: the arguments it passes to track,
\* or the exception raised while computing them
OpenAIArgs(self, response, kw, latency_ms) ==
    LET usage == response.v["usage"]
        provider == DetectProvider(self)
        details == GetAttr(usage, "prompt_tokens_details", None)
        cache_read == ToInt(Or(GetAttr(details, "cached_tokens", Num(0)), Num(0)))
        prompt_tokens == Attr(usage, "prompt_tokens")
        model == Attr(response, "model")
        completion_tokens == Attr(usage, "completion_tokens")
    IN  IF provider = "<raise>" THEN Raise("Exception")
        ELSE IF ~cache_read.ok THEN cache_read
        ELSE IF ~prompt_tokens.ok THEN prompt_tokens
        ELSE IF Or(prompt_tokens.val, Num(0)).t # "int" THEN Raise("TypeError")
        ELSE IF ~model.ok THEN model
        ELSE IF ~completion_tokens.ok THEN completion_tokens
        ELSE LET non_cached_input == Or(prompt_tokens.val, Num(0)).v - cache_read.val IN
             Ok([TrackDefaults EXCEPT
                    !.cache_read_tokens = Num(cache_read.val),
                    !.agent_id = kw.agent_id,
                    !.feature_name = kw.feature_name,
                    !.team_id = kw.team_id,
                    !.latency_ms = Num(latency_ms),
                    !.tags = kw.tags]
                 @@ [provider |-> Str(provider),
                     model |-> model.val,
                     input_tokens |-> Num(FloorAtZero(non_cached_input)),
                     output_tokens |-> completion_tokens.val])

\* lines 315-332 of the Anthropic wrapper, likewise
AnthropicArgs(self, response, kw, latency_ms) ==
    LET usage == response.v["usage"]
        cache_write == ToInt(Or(GetAttr(usage, "cache_creation_input_tokens", Num(0)), Num(0)))
        cache_read == ToInt(Or(GetAttr(usage, "cache_read_input_tokens", Num(0)), Num(0)))
        model == Attr(response, "model")
        input_tokens == Attr(usage, "input_tokens")
        output_tokens == Attr(usage, "output_tokens")
    IN  IF ~cache_write.ok THEN cache_write
        ELSE IF ~cache_read.ok THEN cache_read
        ELSE IF ~model.ok THEN model
        ELSE IF ~input_tokens.ok THEN input_tokens
        ELSE IF ~output_tokens.ok THEN output_tokens
        ELSE Ok([TrackDefaults EXCEPT
                    !.cache_write_tokens = Num(cache_write.val),
                    !.cache_read_tokens = Num(cache_read.val),
                    !.agent_id = kw.agent_id,
                    !.feature_name = kw.feature_name,
                    !.team_id = kw.team_id,
                    !.latency_ms = Num(latency_ms),
                    !.tags = kw.tags]
                 @@ [provider |-> Str("anthropic"),
                     model |-> model.val,
                     input_tokens |-> input_tokens.val,
                     output_tokens |-> output_tokens.val])

\* the tokenr_* keyword arguments once a wrapper has popped them
NoKwargs == [agent_id |-> None, feature_name |-> None, team_id |-> None, tags |-> None]

\* the part of tracked_create after original_create has returned `response`:
\* the track invocations it adds, or the exception it raises
AfterCreate(v, c, kw, inner) ==
    IF ~HasUsage(inner.outcome.val) THEN inner
    ELSE LET args == IF v = "openai"
                     THEN OpenAIArgs(c.self, inner.outcome.val, kw, c.latency_ms)
                     ELSE AnthropicArgs(c.self, inner.outcome.val, kw, c.latency_ms)
         IN  IF args.ok
             THEN [inner EXCEPT !.tracked = Append(@, args.val)]
             ELSE [inner EXCEPT !.outcome = args]

RECURSIVE Invoke(_, _, _, _)
\* calling function identity k of vendor v's entry point: the vendor's own
\* method for k = 0, else the k-th tracked_create, which pops the tokenr_*
\* keyword arguments and calls function k-1
Invoke(v, k, c, kw) ==
    IF k = 0
    THEN [outcome |-> c.vendor, tracked |-> <<>>, vendor_calls |-> 1, vendor_kw |-> kw]
    ELSE LET inner == Invoke(v, k - 1, c, NoKwargs) IN
         IF ~inner.outcome.ok THEN inner ELSE AfterCreate(v, c, kw, inner)

RECURSIVE TrackAll(_, _)
\* the records handed to _send_tracking by a sequence of track invocations
TrackAll(cfg, tracked) ==
    IF tracked = <<>> THEN <<>>
    ELSE Track(cfg, Head(tracked)) \o TrackAll(cfg, Tail(tracked))

\* one call of Completions.create / Messages.create by the application
VendorCall(Args, cap) ==
    \E v \in Vendors : \E c \in Args[v] :
        LET r == Invoke(v, create[v], c, c.kwargs)
            sent == TrackAll(config, r.tracked)
        IN  /\ Len(threads) + Len(sent) <= cap
            /\ threads' = SendAll(config, threads, sent)
            /\ nSend' = nSend + Len(sent)
            /\ last' = [op |-> "call", vendor |-> v, args |-> c, layers |-> create[v],
                        off |-> TrackingOff(config), outcome |-> r.outcome,
                        tracks |-> Len(r.tracked), vendor_calls |-> r.vendor_calls,
                        sent |-> sent]
            /\ UNCHANGED <<config, env, requests, libs, create, original_methods>>

----------------------------------------------------------------------------
(* The inputs the operations are given, and the specifications.            *)

\* the environments the process may start in
Environments ==
    [TOKENR_TOKEN : {None, Str("envtok")}, TOKENR_URL : {None, Str("https://env")}]
NoEnvironment == [TOKENR_TOKEN |-> None, TOKENR_URL |-> None]

\* the state once the module is imported, for the given choices of
\* environment, `import requests` outcome and importable vendor libraries
InitWith(envs, reqs, libsets) ==
    /\ config = InitialConfig
    /\ env \in envs
    /\ requests \in reqs
    /\ libs \in libsets
    /\ create = [v \in Vendors |-> 0]
    /\ original_methods = {}
    /\ threads = <<>>
    /\ nSend = 0
    /\ last = [op |-> "none"]

InitArgsOf(tokens, urls, agents, tagss, enableds, debugs) ==
    [token : tokens, url : urls, agent_id : agents, tags : tagss,
     enabled : enableds, debug : debugs]

Tok == Str("tok")
ProdTags == Dict([env |-> Str("prod")])

\* --- Spec: the whole life cycle, on few inputs ---

InitArgs == InitArgsOf({None, Tok}, {None}, {None}, {None}, BOOLEAN, {FALSE})

ConfigureArgs == {[enabled |-> FALSE], [token |-> None]}

TrackArgs ==
    {TrackDefaults @@ [provider |-> Str("openai"), model |-> Str("gpt-4"),
                       input_tokens |-> Num(10), output_tokens |-> Num(5)]}

TheClient == Obj([_client |-> Obj([base_url |-> Url(<<"a", "p", "i">>)])])

OpenAIUsage(f) == Obj([model |-> Str("gpt-4"), usage |-> Obj(f)])
ClaudeUsage(f) == Obj([model |-> Str("claude"), usage |-> Obj(f)])

CallOf(selfs, kwargss, vendors, latencies) ==
    [self : selfs, kwargs : kwargss, vendor : vendors, latency_ms : latencies]

CallArgs ==
    [v \in Vendors |->
        CallOf({TheClient}, {NoKwargs},
               {Raise("VendorError"),
                Ok(IF v = "openai"
                   THEN OpenAIUsage([prompt_tokens |-> Num(10), completion_tokens |-> Num(5)])
                   ELSE ClaudeUsage([input_tokens |-> Num(10), output_tokens |-> Num(5)]))},
               {12})]

Init == InitWith({NoEnvironment}, BOOLEAN, {Vendors})

Next ==
    \/ InitCall(InitArgs)
    \/ Configure(ConfigureArgs)
    \/ TrackCall(TrackArgs, MaxThreads)
    \/ VendorCall(CallArgs, MaxThreads)
    \/ ThreadRun

Spec == Init /\ [][Next]_vars

\* --- SpecInstall: init and configure, over the environments ---

InstallInitArgs ==
    InitArgsOf({None, Tok}, {None, Str("https://a")}, {None}, {None}, {TRUE}, {FALSE})

InstallConfigureArgs ==
    {[url |-> Str("https://b")], [token |-> None], [timeout |-> Num(5)], [debug |-> TRUE]}

InitInstall == InitWith(Environments, BOOLEAN, SUBSET Vendors)

NextInstall ==
    \/ InitCall(InstallInitArgs)
    \/ Configure(InstallConfigureArgs)

SpecInstall == InitInstall /\ [][NextInstall]_vars

\* --- SpecCall: intercepted calls, over the shapes of the vendor's response ---

\* usage objects of an OpenAI-compatible response
OpenAIUsages ==
    {pt @@ dt @@ [completion_tokens |-> Num(5)] :
        pt \in {EmptyMap, [prompt_tokens |-> None], [prompt_tokens |-> Num(10)],
                [prompt_tokens |-> Num(100)], [prompt_tokens |-> Str("10")]},
        dt \in {EmptyMap, [prompt_tokens_details |-> None]}
               \cup {[prompt_tokens_details |-> Obj(d)] :
                        d \in {EmptyMap, [cached_tokens |-> None],
                               [cached_tokens |-> Num(30)], [cached_tokens |-> Str("abc")]}}}
    \cup {[prompt_tokens |-> Num(10)]}

\* usage objects of an Anthropic response
ClaudeUsages ==
    {it @@ cw @@ cr @@ [output_tokens |-> Num(5)] :
        it \in {EmptyMap, [input_tokens |-> None], [input_tokens |-> Num(10)]},
        cw \in {EmptyMap, [cache_creation_input_tokens |-> None],
                [cache_creation_input_tokens |-> Num(7)],
                [cache_creation_input_tokens |-> Str("abc")]},
        cr \in {EmptyMap, [cache_read_input_tokens |-> Num(3)]}}
    \cup {[input_tokens |-> Num(10)]}

\* responses that carry no usage information: the attribute missing, None,
\* 0, an empty dict, or an object that is false
NoUsageResponses ==
    {Obj([model |-> Str("m")])}
    \cup {Obj([model |-> Str("m"), usage |-> u]) :
            u \in {None, Num(0), EmptyDict,
                   Obj([__bool__ |-> Bool(FALSE), prompt_tokens |-> Num(10),
                        completion_tokens |-> Num(5), input_tokens |-> Num(10),
                        output_tokens |-> Num(5)])}}

\* responses whose usage is there but is no usage object, or that lack a model
OddResponses ==
    {Obj([model |-> Str("m"), usage |-> Dict([prompt_tokens |-> Num(10)])]),
     Obj([usage |-> Obj([prompt_tokens |-> Num(10), completion_tokens |-> Num(5),
                         input_tokens |-> Num(10), output_tokens |-> Num(5)])])}

FullCallArgs ==
    [v \in Vendors |->
        CallOf({TheClient}, {NoKwargs},
               {Raise("VendorError")}
               \cup {Ok(r) : r \in NoUsageResponses \cup OddResponses}
               \cup (IF v = "openai"
                     THEN {Ok(OpenAIUsage(u)) : u \in OpenAIUsages}
                     ELSE {Ok(ClaudeUsage(u)) : u \in ClaudeUsages}),
               {12})]

InitCallSpec == InitWith({NoEnvironment}, {TRUE}, {Vendors})

NextCall ==
    \/ InitCall(InitArgs)
    \/ VendorCall(FullCallArgs, MaxThreads)

SpecCall == InitCallSpec /\ [][NextCall]_vars

\* --- SpecTrack: track, over its arguments and the configured defaults ---

TrackInitArgs ==
    InitArgsOf({None, Tok}, {None}, {None, Str("a0")}, {None, ProdTags}, {TRUE}, {FALSE})

FullTrackArgs ==
    {[provider |-> Str("openai"), model |-> Str("gpt-4"), status |-> Str("success"),
      input_tokens |-> io[1], output_tokens |-> io[2],
      cache_read_tokens |-> cr, cache_write_tokens |-> cw,
      agent_id |-> ag, feature_name |-> ft[1], team_id |-> ft[2], requested_at |-> ft[3],
      latency_ms |-> lat, tags |-> tg] :
        io \in {<<Num(0), Num(0)>>, <<Num(10), Num(5)>>},
        cr \in {Num(0), Num(3)},
        cw \in {Num(0), Num(2)},
        ag \in {None, Str("a1")},
        ft \in {<<None, None, None>>, <<Str("chat"), Str("t1"), Str("2026-01-01T00:00:00Z")>>},
        lat \in {None, Num(0)},
        tg \in {None, EmptyDict, Dict([feature |-> Str("chat")]), Dict([env |-> Str("dev")])}}

InitTrack == InitWith({NoEnvironment}, {TRUE}, {Vendors})

NextTrack ==
    \/ InitCall(TrackInitArgs)
    \/ TrackCall(FullTrackArgs, MaxThreads)

SpecTrack == InitTrack /\ [][NextTrack]_vars

\* --- SpecDetect: _detect_provider, over the client handles ---

\* pieces of base URLs; a URL is one piece or two pieces joined
UrlPieces ==
    { <<"a","p","i",".">>, <<".","c","o","m">>, <<"x">>, <<"a","i">>,
      <<"x",".","a","i">>, <<"X","A","I">>, <<"A","z","u","r","e">>,
      <<"m","i","n","i","m","a","x">>, <<"G","o","o","g","l","e","a","p","i","s">>,
      <<"m","i","s","t","r","a","l">> }

BaseUrls == UrlPieces \cup {a \o b : a \in UrlPieces, b \in UrlPieces}

\* the base_url attribute: a str, an object with a string form, None, or a
\* property that raises
BaseUrlValues ==
    {Text(u) : u \in BaseUrls} \cup {Url(u) : u \in BaseUrls}
    \cup {Text(<<>>), None, Raises}

\* Completions instances: with a client that may lack base_url, with
\* _client None or raising, and without _client
DetectSelves ==
    {Obj([_client |-> Obj([base_url |-> b])]) : b \in BaseUrlValues}
    \cup {Obj([_client |-> Obj(EmptyMap)]), Obj([_client |-> None]),
          Obj([_client |-> Raises]), Obj(EmptyMap)}

InitDetect == InitWith({NoEnvironment}, {TRUE}, {Vendors})

NextDetect == DetectCall(DetectSelves)

SpecDetect == InitDetect /\ [][NextDetect]_vars

----------------------------------------------------------------------------
(* Claims checked under Spec.                                              *)

\* C1: after an init call made with a credential and with the requests
\* module available, every importable vendor entry point carries exactly
\* one wrapper layer, however many init calls came before.
C1_OneWrapperLayer ==
    (last.op = "init" /\ Truthy(config.token) /\ requests)
        => \A v \in libs : create[v] = 1

\* C3: in a state where tracking is disabled or no credential is
\* configured, no step (a manual track, an intercepted call) invokes
\* _send_tracking: no thread is started.
C3_OffMeansNoSend ==
    [][(~config.enabled \/ ~Truthy(config.token))
          => (Len(threads') = Len(threads) /\ nSend' = nSend)]_vars

\* C3 witness: an intercepted call invoked track while tracking was off and
\* nothing was sent.
C3_Witness ==
    /\ last.op = "call" /\ last.tracks >= 1
    /\ (~config.enabled \/ ~Truthy(config.token))
    /\ last.sent = <<>> /\ nSend = 0

\* C4: _send_tracking returns with the submission not yet run (every
\* thread a step adds is started and has posted nothing), and the step in
\* which a background submission runs, whatever its outcome, leaves what
\* the caller was given untouched.
C4_SendDoesNotWait ==
    [][/\ \A i \in (Len(threads) + 1)..Len(threads') :
              threads'[i].state = "started" /\ threads'[i].posts = 0
       /\ (\E i \in 1..Len(threads) : threads'[i] # threads[i]) => last' = last]_vars

\* C4 witness: a submission ended in a connection error after an intercepted
\* call had returned the vendor's response.
C4_Witness ==
    /\ last.op = "call" /\ last.layers >= 1 /\ last.outcome = last.args.vendor
    /\ last.outcome.ok
    /\ \E i \in 1..Len(threads) :
          threads[i].state = "done" /\ threads[i].outcome = "connection_error"

\* C5: every _send_tracking invocation started exactly one thread, and no
\* thread issues more than one HTTP POST, failed or not.
C5_OnePostPerSend ==
    /\ Len(threads) = nSend
    /\ \A i \in 1..Len(threads) :
          /\ threads[i].posts <= 1
          /\ threads[i].state = "started" => threads[i].posts = 0

\* C5 witness: a submission timed out and its thread is done with one POST.
C5_Witness ==
    \E i \in 1..Len(threads) :
        /\ threads[i].state = "done" /\ threads[i].outcome = "timeout"
        /\ threads[i].posts = 1 /\ nSend = Len(threads)

----------------------------------------------------------------------------
(* Claims checked under SpecInstall.                                       *)

\* C9: right after an init call the configured endpoint is the url
\* argument if one was given, else TOKENR_URL if set, else the default.
C9_InitUrl ==
    last.op = "init" =>
        config.url = (IF last.args.url # None THEN last.args.url
                      ELSE IF env["TOKENR_URL"] # None THEN env["TOKENR_URL"]
                      ELSE DefaultUrl)

----------------------------------------------------------------------------
(* Claims checked under SpecCall.                                          *)

\* C2: an intercepted call ends as the vendor's method ended: the vendor's
\* error raised again with no record dispatched, or the vendor's response
\* returned, for every shape of the response.
C2_WrapperTransparent ==
    (last.op = "call" /\ last.layers >= 1) =>
        /\ last.outcome = last.args.vendor
        /\ ~last.args.vendor.ok => last.sent = <<>>

\* C10: an intercepted call whose response has no usage attribute, or a
\* usage value that is false, invokes track zero times and dispatches nothing.
C10_NoUsageNoRecord ==
    (/\ last.op = "call" /\ last.layers >= 1 /\ last.args.vendor.ok
     /\ \/ "usage" \notin DOMAIN last.args.vendor.val.v
        \/ ~Truthy(last.args.vendor.val.v["usage"]))
        => last.tracks = 0 /\ last.sent = <<>>

\* C10 witness: a wrapped call returned a response whose usage is an
\* object that is false, with tracking on.
C10_Witness ==
    /\ last.op = "call" /\ last.layers >= 1 /\ last.args.vendor.ok
    /\ "usage" \in DOMAIN last.args.vendor.val.v
    /\ last.args.vendor.val.v["usage"].t = "obj"
    /\ ~Truthy(last.args.vendor.val.v["usage"])
    /\ ~last.off /\ last.tracks = 0

\* C7: every record dispatched by the OpenAI wrapper has input_tokens =
\* max(prompt_tokens - cached_tokens, 0), with cached_tokens read from
\* prompt_tokens_details and 0 when that is missing; cache_read_tokens is
\* that cached_tokens value (left out when 0), and cache_write_tokens is
\* never there.
C7_OpenAIInputTokens ==
    (last.op = "call" /\ last.vendor = "openai" /\ last.layers >= 1) =>
        \A i \in 1..Len(last.sent) :
            LET u == last.args.vendor.val.v["usage"].v
                d == last.sent[i]
                prompt == IF u["prompt_tokens"] = None THEN 0 ELSE u["prompt_tokens"].v
                det == IF "prompt_tokens_details" \in DOMAIN u
                       THEN u["prompt_tokens_details"] ELSE None
                cached == IF det # None /\ "cached_tokens" \in DOMAIN det.v
                             /\ det.v["cached_tokens"] # None
                          THEN det.v["cached_tokens"].v ELSE 0
            IN  /\ d["input_tokens"] = Num(IF prompt - cached >= 0 THEN prompt - cached ELSE 0)
                /\ cached # 0 => d["cache_read_tokens"] = Num(cached)
                /\ cached = 0 => "cache_read_tokens" \notin DOMAIN d
                /\ "cache_write_tokens" \notin DOMAIN d

\* C7 witness: prompt_tokens 10 with 30 cached tokens was dispatched with
\* input_tokens 0 and cache_read_tokens 30.
C7_Witness ==
    /\ last.op = "call" /\ last.vendor = "openai" /\ last.layers >= 1
    /\ Len(last.sent) >= 1
    /\ last.args.vendor.val.v["usage"].v["prompt_tokens"] = Num(10)
    /\ last.sent[1]["input_tokens"] = Num(0)
    /\ last.sent[1]["cache_read_tokens"] = Num(30)

----------------------------------------------------------------------------
(* Claims checked under SpecTrack.                                         *)

\* C6: a record handed to _send_tracking has no None value; the cache
\* counts are there only when nonzero; agent_id, feature_name, team_id,
\* tags, latency_ms and requested_at are there only when given or when a
\* default applies; input_tokens and output_tokens given as 0 stay as 0.
C6_NoNullFields ==
    (last.op = "track" /\ last.sent # <<>>) =>
        LET d == last.sent[1]
            a == last.args
        IN  /\ \A k \in DOMAIN d : d[k] # None
            /\ \A k \in {"cache_read_tokens", "cache_write_tokens"} :
                  k \in DOMAIN d <=> a[k] # Num(0)
            /\ \A k \in {"cache_read_tokens", "cache_write_tokens"} :
                  k \in DOMAIN d => d[k] # Num(0)
            /\ \A k \in {"feature_name", "team_id", "latency_ms", "requested_at"} :
                  k \in DOMAIN d => a[k] # None
            /\ "agent_id" \in DOMAIN d =>
                  (a.agent_id # None \/ config.default_agent_id # None)
            /\ "tags" \in DOMAIN d =>
                  ((a.tags # None /\ a.tags # EmptyDict) \/ config.default_tags # EmptyDict)
            /\ \A k \in {"input_tokens", "output_tokens"} :
                  a[k] = Num(0) => (k \in DOMAIN d /\ d[k] = Num(0))

\* C6 witness: a track call with zero counts and no attribution was sent as
\* exactly provider, model, the two zero counts and status.
C6_Witness ==
    /\ last.op = "track" /\ last.sent # <<>>
    /\ last.args.input_tokens = Num(0) /\ last.args.cache_read_tokens = Num(0)
    /\ last.args.agent_id = None /\ config.default_agent_id = None
    /\ DOMAIN last.sent[1] = {"provider", "model", "input_tokens", "output_tokens", "status"}
    /\ last.sent[1]["input_tokens"] = Num(0)

----------------------------------------------------------------------------
(* Claims checked under SpecDetect.                                        *)

\* C8 as stated: the result is the slug of the first table entry whose
\* keyword occurs, case-insensitively, in the base URL, and "openai" when
\* none occurs or the base URL is missing or is not a str; never a raise.
C8_FirstMatchOrOpenAI ==
    last.op = "detect" =>
        LET client == IF "_client" \in DOMAIN last.self.v THEN last.self.v["_client"] ELSE None
            attr == IF client.t = "obj" /\ "base_url" \in DOMAIN client.v
                    THEN client.v["base_url"] ELSE None
            text == IF attr.t = "text" THEN Lower(attr.v) ELSE <<>>
            T == OPENAI_COMPAT_PROVIDERS
        IN  /\ last.result # "<raise>"
            /\ \A i \in 1..Len(T) :
                  (Contains(text, T[i].keyword)
                     /\ \A j \in 1..(i - 1) : ~Contains(text, T[j].keyword))
                  => last.result = T[i].slug
            /\ (\A i \in 1..Len(T) : ~Contains(text, T[i].keyword))
                  => last.result = "openai"

\* C8 as amended: a base_url that is not a str is searched through its
\* string form; "openai" is the result when no keyword occurs, when the
\* attribute is missing or false, or when reading it raises.
C8_FirstMatchOfStringForm ==
    last.op = "detect" =>
        LET client == IF "_client" \in DOMAIN last.self.v THEN last.self.v["_client"] ELSE None
            attr == IF client.t = "obj" /\ "base_url" \in DOMAIN client.v
                    THEN client.v["base_url"] ELSE None
            text == IF attr.t \in {"text", "url"} THEN Lower(attr.v) ELSE <<>>
            T == OPENAI_COMPAT_PROVIDERS
        IN  /\ last.result # "<raise>"
            /\ \A i \in 1..Len(T) :
                  (Contains(text, T[i].keyword)
                     /\ \A j \in 1..(i - 1) : ~Contains(text, T[j].keyword))
                  => last.result = T[i].slug
            /\ (\A i \in 1..Len(T) : ~Contains(text, T[i].keyword))
                  => last.result = "openai"

\* C8 witness: a base_url object that is no str, whose string form holds
\* "azure" before "minimax", resolved to minimax, the earlier table entry.
C8_Witness ==
    /\ last.op = "detect"
    /\ last.self = Obj([_client |-> Obj([base_url |->
          Url(<<"A","z","u","r","e">> \o <<"m","i","n","i","m","a","x">>)])])
    /\ last.result = "minimax"

----------------------------------------------------------------------------
(* Further claims checked under SpecTrack.                                 *)

\* C11: in a record track dispatches, tags holds every key of the
\* configured default tags and of the call's tags, with the call's value
\* on a key both have (and is left out when both are empty), and agent_id
\* is the call's agent id when one was given, else the configured default.
C11_CallOverridesDefaults ==
    (last.op = "track" /\ last.sent # <<>>) =>
        LET d == last.sent[1]
            a == last.args
            defaults == config.default_tags.v
            given == IF a.tags = None THEN EmptyMap ELSE a.tags.v
            keys == (DOMAIN defaults) \cup (DOMAIN given)
        IN  /\ keys = {} <=> "tags" \notin DOMAIN d
            /\ keys # {} =>
                  /\ DOMAIN d["tags"].v = keys
                  /\ \A k \in DOMAIN given : d["tags"].v[k] = given[k]
                  /\ \A k \in (DOMAIN defaults) \ (DOMAIN given) :
                        d["tags"].v[k] = defaults[k]
            /\ a.agent_id # None => d["agent_id"] = a.agent_id
            /\ (a.agent_id = None /\ config.default_agent_id # None)
                  => d["agent_id"] = config.default_agent_id

\* C11 witness: default tags {env: prod} and default agent a0 met a call
\* with tags {env: dev} and agent a1; the record carries dev and a1.
C11_Witness ==
    /\ last.op = "track" /\ last.sent # <<>>
    /\ config.default_tags = ProdTags /\ config.default_agent_id = Str("a0")
    /\ last.args.tags = Dict([env |-> Str("dev")]) /\ last.args.agent_id = Str("a1")
    /\ last.sent[1]["tags"] = Dict([env |-> Str("dev")])
    /\ last.sent[1]["agent_id"] = Str("a1")

----------------------------------------------------------------------------
(* Further claims checked under Spec.                                      *)

\* C12: with tracking enabled and a credential configured, a wrapped call
\* that returns a response with usage invokes track once, dispatches one
\* record and runs the vendor's method once.
C12_OneRecordPerCall ==
    (/\ last.op = "call" /\ last.layers >= 1 /\ ~last.off
     /\ last.args.vendor.ok /\ last.outcome.ok
     /\ "usage" \in DOMAIN last.args.vendor.val.v
     /\ Truthy(last.args.vendor.val.v["usage"]))
        => last.tracks = 1 /\ Len(last.sent) = 1 /\ last.vendor_calls = 1

\* C13 as stated: every POST carries the credential and endpoint that were
\* configured when its record passed track's check, and never an absent
\* credential.
C13_PostUsesHandOverConfig ==
    \A i \in 1..Len(threads) :
        threads[i].posts >= 1 =>
            /\ threads[i].request.auth = threads[i].at.token
            /\ threads[i].request.url = threads[i].at.url
            /\ Truthy(threads[i].request.auth)

\* C13 as amended: the POST of a background submission carries the
\* credential and endpoint that _config holds when the submission runs.
C13_PostUsesCurrentConfig ==
    [][\A i \in 1..Len(threads) :
          (threads[i].posts = 0 /\ threads'[i].posts >= 1) =>
              /\ threads'[i].request.auth = config.token
              /\ threads'[i].request.url = config.url]_vars

\* C13 witness: a record handed over under credential tok was posted after
\* configure had cleared the credential, and the POST carries None.
C13_Witness ==
    \E i \in 1..Len(threads) :
        /\ threads[i].posts = 1
        /\ threads[i].at.token = Tok
        /\ threads[i].request.auth = None
        /\ config.token = None

====
